---- MODULE Spec2Model ----
(***************************************************************************)
(* The single-producer single-consumer queues of lockless:                 *)
(*   SingleProducerSingleConsumerBoundedLockLessQueue (circular buffer),   *)
(*   SingleProducerSingleConsumerLockLessQueue (linked nodes), and the     *)
(*   MemoryPool the linked queue owns.                                     *)
(* One producer thread and one consumer thread run against one queue.      *)
(* Every atomic load or store of the code is one step of its thread; the   *)
(* thread-local computation that follows a load belongs to the same step.  *)
(***************************************************************************)
EXTENDS Integers, Sequences, FiniteSets, TLC

VARIABLES
    Queue,          \* the template argument of QueueTest: which queue is used
    capacity_,      \* bounded: size of the buffer
    first_,         \* bounded: atomic<int>, index of the first element
    next_write_,    \* bounded: atomic<int>, index one after the last element
    queue_,         \* bounded: the circular buffer, index -> value
    llq_first_,     \* linked: Node* first_ (producer only)
    divider_,       \* linked: atomic<Node*>
    last_,          \* linked: atomic<Node*>
    node_next,      \* linked: Node::next of every node that exists
    node_value,     \* linked: Node::value of every node that exists
    heap_count,     \* linked: number of nodes obtained with new Node(value)
    memory_pool_,   \* linked: the MemoryPool<Node> member
    prod,           \* producer thread: position, arguments, locals, result
    cons,           \* consumer thread: position, locals, result
    value,          \* the consumer's variable that Pop writes through Value*
    pushed,         \* history: values published by Push, in order
    popped,         \* history: values returned by successful Pops, in order
    bench,          \* the benchmark's loop variables and sums
    pool_user       \* the caller of a MemoryPool used on its own

vars == <<Queue, capacity_, first_, next_write_, queue_, llq_first_, divider_,
          last_, node_next, node_value, heap_count, memory_pool_, prod, cons,
          value, pushed, popped, bench, pool_user>>

bounded_vars == <<capacity_, first_, next_write_, queue_>>
linked_vars == <<llq_first_, divider_, last_, node_next, node_value,
                 heap_count, memory_pool_>>

(***************************************************************************)
(* Bounds of the model.                                                    *)
(***************************************************************************)
MaxCapacity == 3
MaxPush == 3
MaxValue == 2
MaxInitialCapacity == 2
MaxIterations == 2

Values == 0..MaxValue

(***************************************************************************)
(* Values of the program.                                                  *)
(***************************************************************************)
nullptr == 0
\* The value the tests put in the output variable before calling Pop.
Sentinel == -1
\* The content of storage that was allocated and never written: a slot of
\* new atomic<Value>[capacity_], the value of a default-constructed Node.
\* A read of it yields any value.
Indeterminate == -2

ReadOf(stored) == IF stored = Indeterminate THEN Values ELSE {stored}

(***************************************************************************)
(* MemoryPool<T>.  A pool is a record; pointers into chunk k are the       *)
(* positive integers k*capacity_increment_+1 .. (k+1)*capacity_increment_. *)
(***************************************************************************)
AddCapacity(pool) ==
    LET base == Len(pool.memory_chunk_starting_locations_) * pool.capacity_increment_
    IN [pool EXCEPT
          !.memory_ = @ \o [i \in 1..pool.capacity_increment_ |-> base + i],
          !.memory_chunk_starting_locations_ = Append(@, base + 1)]

MemoryPool(initial_capacity) ==
    AddCapacity([memory_ |-> <<>>,
                 memory_chunk_starting_locations_ |-> <<>>,
                 capacity_increment_ |-> initial_capacity])

Free(pool, t) == [pool EXCEPT !.memory_ = Append(@, t)]

\* Allocate that hands out the back of the free-list and leaves it there.
Allocate_NoPop(pool) ==
    LET grown == IF Len(pool.memory_) = 0 THEN AddCapacity(pool) ELSE pool
        empty == Len(grown.memory_) = 0
    IN [pool |-> grown,
        ptr |-> IF empty THEN nullptr ELSE grown.memory_[Len(grown.memory_)],
        back_of_empty |-> empty]

\* Allocate that adds a chunk when at most one free slot is left.
Allocate_GrowEarly(pool) ==
    LET grown == IF Len(pool.memory_) <= 1 THEN AddCapacity(pool) ELSE pool
        empty == Len(grown.memory_) = 0
    IN [pool |-> [grown EXCEPT !.memory_ = SubSeq(@, 1, Len(@) - 1)],
        ptr |-> IF empty THEN nullptr ELSE grown.memory_[Len(grown.memory_)],
        back_of_empty |-> empty]

\* Allocate returns the pool after the call and the pointer handed out.
\* When the free-list is still empty after AddCapacity, memory_.back() and
\* memory_.pop_back() are applied to an empty vector: no pointer is handed
\* out (back_of_empty), the call does not return.
Allocate(pool) ==
    LET grown == IF Len(pool.memory_) = 0 THEN AddCapacity(pool) ELSE pool
        empty == Len(grown.memory_) = 0
    IN [pool |-> [grown EXCEPT !.memory_ = SubSeq(@, 1, Len(@) - 1)],
        ptr |-> IF empty THEN nullptr ELSE grown.memory_[Len(grown.memory_)],
        back_of_empty |-> empty]

(***************************************************************************)
(* Bounded queue: pure parts.                                              *)
(***************************************************************************)
\* Advance that does not wrap at the end of the buffer.
Advance_NoWrap(index) == index + 1

Advance(index) == IF index + 1 < capacity_ THEN index + 1 ELSE 0

GetCapacity == capacity_ - 1

\* Push that never finds the queue full.
PushFull_Never(first, next_write_next) == FALSE

\* The comparison of Push: true when there is no room.
PushFull(first, next_write_next) == first = next_write_next

\* Pop that takes the test for full as its test for empty.
PopEmpty_Advanced(first, next_write) == first = Advance(next_write)

\* The comparison of Pop: true when there is nothing to remove.
\* Pop that never finds the queue empty.
PopEmpty_Never(first, next_write) == FALSE

PopEmpty(first, next_write) == first = next_write

\* IsEmpty with the comparison inverted.
IsEmptyResult_Inverted(first, next_write) == first # next_write

\* IsEmpty that applies the comparison of IsFull.
IsEmptyResult_Full(first, next_write) == first = Advance(next_write)

IsEmptyResult(first, next_write) == first = next_write

\* IsFull that forgets to advance next_write.
IsFullResult_NoAdvance(first, next_write) == first = next_write

IsFullResult(first, next_write) == first = Advance(next_write)

(***************************************************************************)
(* Linked queue: pure parts.                                               *)
(***************************************************************************)
\* The comparison of Pop: true when there is a value to remove.
LinkedPopHasValue(div, last) == div # last

\* What IsEmpty returns for the two pointers it loaded.
LinkedIsEmptyResult(div, last) == div # last

(***************************************************************************)
(* Threads.                                                                *)
(***************************************************************************)
IdleProd == [pc |-> "idle", op |-> "none", value |-> 0, first |-> 0,
             next_write |-> 0, next_write_next |-> 0, last |-> nullptr,
             until |-> nullptr, stored |-> FALSE, ret |-> FALSE,
             after_not_full |-> FALSE]

IdleCons == [pc |-> "idle", op |-> "none", first |-> 0, next_write |-> 0,
             div |-> nullptr, last |-> nullptr, ret |-> FALSE,
             after_not_empty |-> FALSE]

\* No MemoryPool is used on its own.
IdlePoolUser == [pc |-> "off", op |-> "none", live |-> <<>>, ptr |-> nullptr,
                 ops |-> 0]

IdleBench == [num_iterations_ |-> 0, push_count_ |-> 0, pop_count_ |-> 0,
              i |-> 0, num_times |-> 0, random_number |-> 0,
              push |-> "off", pop |-> "off"]

\* A thread calls an operation: its locals start afresh.  The call is
\* marked when the thread's previous call was IsFull() (producer) or
\* IsEmpty() (consumer) and returned false.
CallProd(op, pc, v) ==
    [IdleProd EXCEPT !.op = op, !.pc = pc, !.value = v,
                     !.after_not_full = prod.op = "IsFull" /\ ~prod.ret]

CallCons(op, pc) ==
    [IdleCons EXCEPT !.op = op, !.pc = pc,
                     !.after_not_empty = cons.op = "IsEmpty" /\ ~cons.ret]

(***************************************************************************)
(* Construction.                                                           *)
(***************************************************************************)
InitBounded(capacity) ==
    /\ Queue = "bounded"
    /\ capacity_ = capacity
    /\ queue_ = [i \in 0..(capacity - 1) |-> Indeterminate]
    /\ first_ = 0
    /\ next_write_ = 0
    /\ llq_first_ = nullptr /\ divider_ = nullptr /\ last_ = nullptr
    /\ node_next = <<>> /\ node_value = <<>> /\ heap_count = 0
    /\ memory_pool_ = [memory_ |-> <<>>,
                       memory_chunk_starting_locations_ |-> <<>>,
                       capacity_increment_ |-> 0]

InitLinked(initial_capacity) ==
    LET pool == MemoryPool(initial_capacity)
        got == Allocate(pool)
    IN /\ Queue = "linked"
       /\ memory_pool_ = got.pool
       /\ llq_first_ = got.ptr /\ divider_ = got.ptr /\ last_ = got.ptr
       /\ node_next = [a \in 1..initial_capacity |-> nullptr]
       /\ node_value = [a \in 1..initial_capacity |-> Indeterminate]
       /\ heap_count = 0
       /\ capacity_ = 0 /\ queue_ = <<>> /\ first_ = 0 /\ next_write_ = 0

InitThreads ==
    /\ prod = IdleProd
    /\ cons = IdleCons
    /\ value = Sentinel
    /\ pushed = <<>>
    /\ popped = <<>>

Init ==
    /\ \/ \E capacity \in 1..MaxCapacity : InitBounded(capacity)
       \/ \E initial_capacity \in 1..MaxInitialCapacity : InitLinked(initial_capacity)
    /\ InitThreads
    /\ bench = IdleBench
    /\ pool_user = IdlePoolUser

(***************************************************************************)
(* Bounded queue: Push.                                                    *)
(***************************************************************************)
B_Push_LoadFirst ==
    /\ Queue = "bounded" /\ prod.pc = "push_load_first"
    /\ prod' = [prod EXCEPT !.first = first_, !.pc = "push_load_next_write"]
    /\ UNCHANGED <<Queue, bounded_vars, linked_vars, cons, value, pushed, popped, bench,
                   pool_user>>

\* Loads next_write_, advances it, and returns false when there is no room.
\* A Push that waits for room: when the queue is full it loads first_ again.
B_Push_LoadNextWrite_Spin ==
    /\ Queue = "bounded" /\ prod.pc = "push_load_next_write"
    /\ LET next_write == next_write_
           next_write_next == Advance(next_write)
       IN prod' = IF PushFull(prod.first, next_write_next)
                  THEN [prod EXCEPT !.next_write = next_write,
                                    !.next_write_next = next_write_next,
                                    !.pc = "push_load_first"]
                  ELSE [prod EXCEPT !.next_write = next_write,
                                    !.next_write_next = next_write_next,
                                    !.pc = "push_store_value"]
    /\ UNCHANGED <<Queue, bounded_vars, linked_vars, cons, value, pushed, popped, bench,
                   pool_user>>

B_Push_LoadNextWrite ==
    /\ Queue = "bounded" /\ prod.pc = "push_load_next_write"
    /\ LET next_write == next_write_
           next_write_next == Advance(next_write)
       IN prod' = IF PushFull(prod.first, next_write_next)
                  THEN [prod EXCEPT !.next_write = next_write,
                                    !.next_write_next = next_write_next,
                                    !.pc = "idle", !.ret = FALSE]
                  ELSE [prod EXCEPT !.next_write = next_write,
                                    !.next_write_next = next_write_next,
                                    !.pc = "push_store_value"]
    /\ UNCHANGED <<Queue, bounded_vars, linked_vars, cons, value, pushed, popped, bench,
                   pool_user>>

B_Push_StoreValue ==
    /\ Queue = "bounded" /\ prod.pc = "push_store_value"
    /\ queue_' = [queue_ EXCEPT ![prod.next_write] = prod.value]
    /\ prod' = [prod EXCEPT !.pc = "push_store_next_write"]
    /\ UNCHANGED <<Queue, capacity_, first_, next_write_, linked_vars, cons,
                   value, pushed, popped, bench, pool_user>>

\* The last statement of Push.  Control then reaches the closing brace of a
\* function returning bool without a return statement: the caller receives
\* either truth value.
B_Push_StoreNextWrite ==
    /\ Queue = "bounded" /\ prod.pc = "push_store_next_write"
    /\ next_write_' = prod.next_write_next
    /\ pushed' = Append(pushed, prod.value)
    /\ \E ret \in BOOLEAN :
          prod' = [prod EXCEPT !.pc = "idle", !.stored = TRUE, !.ret = ret]
    /\ UNCHANGED <<Queue, capacity_, first_, queue_, linked_vars, cons, value,
                   popped, bench, pool_user>>

(***************************************************************************)
(* Bounded queue: Pop.                                                     *)
(***************************************************************************)
B_Pop_LoadFirst ==
    /\ Queue = "bounded" /\ cons.pc = "pop_load_first"
    /\ cons' = [cons EXCEPT !.first = first_, !.pc = "pop_load_next_write"]
    /\ UNCHANGED <<Queue, bounded_vars, linked_vars, prod, value, pushed, popped, bench,
                   pool_user>>

B_Pop_LoadNextWrite ==
    /\ Queue = "bounded" /\ cons.pc = "pop_load_next_write"
    /\ LET next_write == next_write_
       IN cons' = IF PopEmpty(cons.first, next_write)
                  THEN [cons EXCEPT !.next_write = next_write,
                                    !.pc = "idle", !.ret = FALSE]
                  ELSE [cons EXCEPT !.next_write = next_write,
                                    !.pc = "pop_load_value"]
    /\ UNCHANGED <<Queue, bounded_vars, linked_vars, prod, value, pushed, popped, bench,
                   pool_user>>

B_Pop_LoadValue ==
    /\ Queue = "bounded" /\ cons.pc = "pop_load_value"
    /\ value' \in ReadOf(queue_[cons.first])
    /\ cons' = [cons EXCEPT !.pc = "pop_store_first"]
    /\ UNCHANGED <<Queue, bounded_vars, linked_vars, prod, pushed, popped, bench, pool_user>>

\* Pop that publishes first_ without advancing it.
B_Pop_StoreFirst_NoAdvance ==
    /\ Queue = "bounded" /\ cons.pc = "pop_store_first"
    /\ first_' = cons.first
    /\ popped' = Append(popped, value)
    /\ cons' = [cons EXCEPT !.pc = "idle", !.ret = TRUE]
    /\ UNCHANGED <<Queue, capacity_, next_write_, queue_, linked_vars, prod,
                   value, pushed, bench, pool_user>>

B_Pop_StoreFirst ==
    /\ Queue = "bounded" /\ cons.pc = "pop_store_first"
    /\ first_' = Advance(cons.first)
    /\ popped' = Append(popped, value)
    /\ cons' = [cons EXCEPT !.pc = "idle", !.ret = TRUE]
    /\ UNCHANGED <<Queue, capacity_, next_write_, queue_, linked_vars, prod,
                   value, pushed, bench, pool_user>>

(***************************************************************************)
(* Bounded queue: IsEmpty (consumer thread) and IsFull (producer thread).  *)
(* The two loads are the operands of one ==, evaluated in either order; the *)
(* calling thread is the only writer of one of the two cursors, so the     *)
(* result is decided by the moment the other cursor is loaded and both     *)
(* orders give the same results.  The loads are taken as written.          *)
(***************************************************************************)
B_IsEmpty_LoadFirst ==
    /\ Queue = "bounded" /\ cons.pc = "is_empty_load_first"
    /\ cons' = [cons EXCEPT !.first = first_, !.pc = "is_empty_load_next_write"]
    /\ UNCHANGED <<Queue, bounded_vars, linked_vars, prod, value, pushed, popped, bench,
                   pool_user>>

B_IsEmpty_LoadNextWrite ==
    /\ Queue = "bounded" /\ cons.pc = "is_empty_load_next_write"
    /\ cons' = [cons EXCEPT !.next_write = next_write_, !.pc = "idle",
                            !.ret = IsEmptyResult(cons.first, next_write_)]
    /\ UNCHANGED <<Queue, bounded_vars, linked_vars, prod, value, pushed, popped, bench,
                   pool_user>>

B_IsFull_LoadFirst ==
    /\ Queue = "bounded" /\ prod.pc = "is_full_load_first"
    /\ prod' = [prod EXCEPT !.first = first_, !.pc = "is_full_load_next_write"]
    /\ UNCHANGED <<Queue, bounded_vars, linked_vars, cons, value, pushed, popped, bench,
                   pool_user>>

B_IsFull_LoadNextWrite ==
    /\ Queue = "bounded" /\ prod.pc = "is_full_load_next_write"
    /\ prod' = [prod EXCEPT !.next_write = next_write_, !.pc = "idle",
                            !.ret = IsFullResult(prod.first, next_write_)]
    /\ UNCHANGED <<Queue, bounded_vars, linked_vars, cons, value, pushed, popped, bench,
                   pool_user>>

(***************************************************************************)
(* Linked queue: Push, with the FreeQueueUntil it ends with.               *)
(***************************************************************************)
L_Push_LoadLast ==
    /\ Queue = "linked" /\ prod.pc = "push_load_last"
    /\ prod' = [prod EXCEPT !.last = last_, !.pc = "push_new_node"]
    /\ UNCHANGED <<Queue, bounded_vars, linked_vars, cons, value, pushed, popped, bench,
                   pool_user>>

\* The node that Push links behind last: new Node(value) of the general
\* allocator, a node no earlier node shares its address with (nothing the
\* queue obtained with new is ever deleted).  Heap nodes are the negative
\* integers.
NewNode == -(heap_count + 1)

\* last->next = new Node(value)
L_Push_NewNode ==
    /\ Queue = "linked" /\ prod.pc = "push_new_node"
    /\ LET n == NewNode
       IN /\ node_value' = (n :> prod.value) @@ node_value
          /\ node_next' = (n :> nullptr) @@ [node_next EXCEPT ![prod.last] = n]
    /\ heap_count' = heap_count + 1
    /\ prod' = [prod EXCEPT !.pc = "push_store_last"]
    /\ UNCHANGED <<Queue, bounded_vars, llq_first_, divider_, last_,
                   memory_pool_, cons, value, pushed, popped, bench, pool_user>>

L_Push_StoreLast ==
    /\ Queue = "linked" /\ prod.pc = "push_store_last"
    /\ last_' = node_next[prod.last]
    /\ pushed' = Append(pushed, prod.value)
    /\ prod' = [prod EXCEPT !.pc = "push_load_divider", !.stored = TRUE]
    /\ UNCHANGED <<Queue, bounded_vars, llq_first_, divider_, node_next,
                   node_value, heap_count, memory_pool_, cons, value, popped, bench,
                   pool_user>>

\* Push that frees up to last_ instead of divider_.
FreeUntilOfPush_Last == last_

\* The argument of FreeQueueUntil in Push.
FreeUntilOfPush == divider_

L_Push_LoadDivider ==
    /\ Queue = "linked" /\ prod.pc = "push_load_divider"
    /\ prod' = [prod EXCEPT !.until = FreeUntilOfPush, !.pc = "free_queue_until"]
    /\ UNCHANGED <<Queue, bounded_vars, linked_vars, cons, value, pushed, popped, bench,
                   pool_user>>

\* One test of the loop condition of FreeQueueUntil, and one pass through
\* its body when the condition holds.  Push returns when it does not.
\* FreeQueueUntil that frees the node first_ has moved to.
L_FreeQueueUntil_FreeNext ==
    /\ Queue = "linked" /\ prod.pc = "free_queue_until"
    /\ IF llq_first_ # prod.until
       THEN /\ llq_first_' = node_next[llq_first_]
            /\ memory_pool_' = Free(memory_pool_, node_next[llq_first_])
            /\ prod' = prod
       ELSE /\ prod' = [prod EXCEPT !.pc = "idle"]
            /\ UNCHANGED <<llq_first_, memory_pool_>>
    /\ UNCHANGED <<Queue, bounded_vars, divider_, last_, node_next, node_value,
                   heap_count, cons, value, pushed, popped, bench, pool_user>>

L_FreeQueueUntil ==
    /\ Queue = "linked" /\ prod.pc = "free_queue_until"
    /\ IF llq_first_ # prod.until
       THEN LET current == llq_first_
            IN /\ llq_first_' = node_next[llq_first_]
               /\ memory_pool_' = Free(memory_pool_, current)
               /\ prod' = prod
       ELSE /\ prod' = [prod EXCEPT !.pc = "idle"]
            /\ UNCHANGED <<llq_first_, memory_pool_>>
    /\ UNCHANGED <<Queue, bounded_vars, divider_, last_, node_next, node_value,
                   heap_count, cons, value, pushed, popped, bench, pool_user>>

(***************************************************************************)
(* Linked queue: Pop.                                                      *)
(***************************************************************************)
L_Pop_LoadDivider ==
    /\ Queue = "linked" /\ cons.pc = "pop_load_divider"
    /\ cons' = [cons EXCEPT !.div = divider_, !.pc = "pop_load_last"]
    /\ UNCHANGED <<Queue, bounded_vars, linked_vars, prod, value, pushed, popped, bench,
                   pool_user>>

L_Pop_LoadLast ==
    /\ Queue = "linked" /\ cons.pc = "pop_load_last"
    /\ LET last == last_
       IN cons' = IF LinkedPopHasValue(cons.div, last)
                  THEN [cons EXCEPT !.last = last, !.pc = "pop_read_value"]
                  ELSE [cons EXCEPT !.last = last, !.pc = "idle", !.ret = FALSE]
    /\ UNCHANGED <<Queue, bounded_vars, linked_vars, prod, value, pushed, popped, bench,
                   pool_user>>

\* A pointer that can be dereferenced: a node that exists.
IsNode(p) == p \in DOMAIN node_next

\* Pop that returns the value of the divider node itself.
PopValueNode_Divider(div) == div

\* The node whose value Pop returns: div->next.
PopValueNode(div) == node_next[div]

\* *return_value = div->next->value.  Dereferencing a pointer that is no node
\* ends the thread.
L_Pop_ReadValue ==
    /\ Queue = "linked" /\ cons.pc = "pop_read_value"
    /\ IF IsNode(cons.div) /\ IsNode(PopValueNode(cons.div))
       THEN /\ value' \in ReadOf(node_value[PopValueNode(cons.div)])
            /\ cons' = [cons EXCEPT !.pc = "pop_store_divider"]
       ELSE /\ cons' = [cons EXCEPT !.pc = "crashed"]
            /\ UNCHANGED value
    /\ UNCHANGED <<Queue, bounded_vars, linked_vars, prod, pushed, popped, bench, pool_user>>

\* A Pop that returns the node it leaves behind to the pool itself.
L_Pop_StoreDivider_Frees ==
    /\ Queue = "linked" /\ cons.pc = "pop_store_divider"
    /\ divider_' = node_next[cons.div]
    /\ memory_pool_' = Free(memory_pool_, cons.div)
    /\ popped' = Append(popped, value)
    /\ cons' = [cons EXCEPT !.pc = "idle", !.ret = TRUE]
    /\ UNCHANGED <<Queue, bounded_vars, llq_first_, last_, node_next, node_value,
                   heap_count, prod, value, pushed, bench, pool_user>>

L_Pop_StoreDivider ==
    /\ Queue = "linked" /\ cons.pc = "pop_store_divider"
    /\ divider_' = node_next[cons.div]
    /\ popped' = Append(popped, value)
    /\ cons' = [cons EXCEPT !.pc = "idle", !.ret = TRUE]
    /\ UNCHANGED <<Queue, bounded_vars, llq_first_, last_, node_next, node_value,
                   heap_count, memory_pool_, prod, value, pushed, bench, pool_user>>

(***************************************************************************)
(* Linked queue: IsEmpty (consumer thread).                                *)
(***************************************************************************)
L_IsEmpty_LoadDivider ==
    /\ Queue = "linked" /\ cons.pc = "is_empty_load_divider"
    /\ cons' = [cons EXCEPT !.div = divider_, !.pc = "is_empty_load_last"]
    /\ UNCHANGED <<Queue, bounded_vars, linked_vars, prod, value, pushed, popped, bench,
                   pool_user>>

L_IsEmpty_LoadLast ==
    /\ Queue = "linked" /\ cons.pc = "is_empty_load_last"
    /\ cons' = [cons EXCEPT !.last = last_, !.pc = "idle",
                            !.ret = LinkedIsEmptyResult(cons.div, last_)]
    /\ UNCHANGED <<Queue, bounded_vars, linked_vars, prod, value, pushed, popped, bench,
                   pool_user>>

(***************************************************************************)
(* The callers of the unit tests: each thread calls its operations in any  *)
(* order, with any value.                                                  *)
(***************************************************************************)
FirstPc(op) ==
    IF Queue = "bounded"
    THEN CASE op = "Push" -> "push_load_first"
           [] op = "Pop" -> "pop_load_first"
           [] op = "IsEmpty" -> "is_empty_load_first"
           [] op = "IsFull" -> "is_full_load_first"
    ELSE CASE op = "Push" -> "push_load_last"
           [] op = "Pop" -> "pop_load_divider"
           [] op = "IsEmpty" -> "is_empty_load_divider"

\* The queue has not been destroyed.
Alive == prod.op # "~Queue"

CallPush ==
    /\ prod.pc = "idle" /\ Alive /\ Len(pushed) < MaxPush
    /\ \E v \in Values : prod' = CallProd("Push", FirstPc("Push"), v)
    /\ UNCHANGED <<Queue, bounded_vars, linked_vars, cons, value, pushed, popped, bench,
                   pool_user>>

CallIsFull ==
    /\ prod.pc = "idle" /\ Alive /\ Queue = "bounded"
    /\ prod' = CallProd("IsFull", FirstPc("IsFull"), 0)
    /\ UNCHANGED <<Queue, bounded_vars, linked_vars, cons, value, pushed, popped, bench,
                   pool_user>>

\* value = -1; queue_.Pop(&value)
CallPop ==
    /\ cons.pc = "idle" /\ Alive
    /\ cons' = CallCons("Pop", FirstPc("Pop"))
    /\ value' = Sentinel
    /\ UNCHANGED <<Queue, bounded_vars, linked_vars, prod, pushed, popped, bench, pool_user>>

CallIsEmpty ==
    /\ cons.pc = "idle" /\ Alive
    /\ cons' = CallCons("IsEmpty", FirstPc("IsEmpty"))
    /\ UNCHANGED <<Queue, bounded_vars, linked_vars, prod, value, pushed, popped, bench,
                   pool_user>>

\* ~SingleProducerSingleConsumerLockLessQueue(): FreeQueueUntil(nullptr),
\* once no thread is inside a call; no call follows it.
CallDestructor ==
    /\ Queue = "linked" /\ Alive
    /\ prod.pc = "idle" /\ cons.pc = "idle"
    /\ prod' = [CallProd("~Queue", "free_queue_until", 0)
                  EXCEPT !.until = nullptr]
    /\ UNCHANGED <<Queue, bounded_vars, linked_vars, cons, value, pushed, popped, bench,
                   pool_user>>

BoundedSteps ==
    \/ B_Push_LoadFirst \/ B_Push_LoadNextWrite \/ B_Push_StoreValue
    \/ B_Push_StoreNextWrite
    \/ B_Pop_LoadFirst \/ B_Pop_LoadNextWrite \/ B_Pop_LoadValue
    \/ B_Pop_StoreFirst

LinkedSteps ==
    \/ L_Push_LoadLast \/ L_Push_NewNode \/ L_Push_StoreLast
    \/ L_Push_LoadDivider \/ L_FreeQueueUntil
    \/ L_Pop_LoadDivider \/ L_Pop_LoadLast \/ L_Pop_ReadValue
    \/ L_Pop_StoreDivider

Next ==
    \/ CallPush \/ CallIsFull \/ CallPop \/ CallIsEmpty \/ CallDestructor
    \/ BoundedSteps
    \/ LinkedSteps
    \/ L_IsEmpty_LoadDivider \/ L_IsEmpty_LoadLast
    \/ B_IsEmpty_LoadFirst \/ B_IsEmpty_LoadNextWrite
    \/ B_IsFull_LoadFirst \/ B_IsFull_LoadNextWrite

Spec == Init /\ [][Next]_vars

(***************************************************************************)
(* The benchmark: RandomPush (linked queue) or RandomPushWithSpin (bounded *)
(* queue) on the producer thread, RandomPop on the consumer thread.        *)
(***************************************************************************)
MaxRandom == 2
RandomNumbers == 1..MaxRandom

InitBench ==
    /\ \/ \E capacity \in 2..MaxCapacity : InitBounded(capacity)
       \/ \E initial_capacity \in 1..MaxInitialCapacity : InitLinked(initial_capacity)
    /\ InitThreads
    /\ \E n \in 1..MaxIterations :
          bench = [IdleBench EXCEPT !.num_iterations_ = n, !.push = "loop",
                                    !.pop = "loop"]
    /\ pool_user = IdlePoolUser

\* int random_number = random_number_gen(); the first queue_.Push(random_number)
RandomPush_Call ==
    /\ bench.push = "loop" /\ prod.pc = "idle"
    /\ bench.i < bench.num_iterations_
    /\ \E r \in RandomNumbers :
          /\ bench' = [bench EXCEPT !.random_number = r, !.push = "wait"]
          /\ prod' = CallProd("Push", FirstPc("Push"), r)
    /\ UNCHANGED <<Queue, bounded_vars, linked_vars, cons, value, pushed, popped, pool_user>>

\* Push has returned.  RandomPushWithSpin calls it again while it returns
\* false; then push_count_ += random_number and the loop goes on.
RandomPush_Return ==
    /\ bench.push = "wait" /\ prod.pc = "idle"
    /\ IF Queue = "bounded" /\ ~prod.ret
       THEN /\ prod' = CallProd("Push", FirstPc("Push"), bench.random_number)
            /\ bench' = bench
       ELSE /\ bench' = [bench EXCEPT
                  !.push_count_ = @ + bench.random_number,
                  !.i = @ + 1,
                  !.push = IF bench.i + 1 < bench.num_iterations_
                           THEN "loop" ELSE "done"]
            /\ prod' = prod
    /\ UNCHANGED <<Queue, bounded_vars, linked_vars, cons, value, pushed, popped, pool_user>>

\* while (num_times < num_iterations_) ... queue_.Pop(&value)
RandomPop_Call ==
    /\ bench.pop = "loop" /\ cons.pc = "idle"
    /\ cons' = CallCons("Pop", FirstPc("Pop"))
    /\ bench' = [bench EXCEPT !.pop = "wait"]
    /\ UNCHANGED <<Queue, bounded_vars, linked_vars, prod, value, pushed, popped, pool_user>>

RandomPop_Return ==
    /\ bench.pop = "wait" /\ cons.pc = "idle"
    /\ LET got == IF cons.ret THEN 1 ELSE 0
       IN bench' = [bench EXCEPT
              !.pop_count_ = IF cons.ret THEN @ + value ELSE @,
              !.num_times = @ + got,
              !.pop = IF bench.num_times + got < bench.num_iterations_
                      THEN "loop" ELSE "done"]
    /\ UNCHANGED <<Queue, bounded_vars, linked_vars, prod, cons, value, pushed, popped,
                   pool_user>>

BenchProducer ==
    \/ RandomPush_Call \/ RandomPush_Return
    \/ B_Push_LoadFirst \/ B_Push_LoadNextWrite \/ B_Push_StoreValue
    \/ B_Push_StoreNextWrite
    \/ L_Push_LoadLast \/ L_Push_NewNode \/ L_Push_StoreLast
    \/ L_Push_LoadDivider \/ L_FreeQueueUntil

BenchConsumer ==
    \/ RandomPop_Call \/ RandomPop_Return
    \/ B_Pop_LoadFirst \/ B_Pop_LoadNextWrite \/ B_Pop_LoadValue
    \/ B_Pop_StoreFirst
    \/ L_Pop_LoadDivider \/ L_Pop_LoadLast \/ L_Pop_ReadValue
    \/ L_Pop_StoreDivider

NextBench == BenchProducer \/ BenchConsumer

\* Both threads are threads of the operating system: each keeps running.
BenchSpec ==
    /\ InitBench
    /\ [][NextBench]_vars
    /\ WF_vars(BenchProducer)
    /\ WF_vars(BenchConsumer)

(***************************************************************************)
(* A MemoryPool used on its own by one thread: any sequence of Allocate    *)
(* and Free calls in which Free is given a pointer the caller holds.       *)
(***************************************************************************)
MaxPoolOps == 7

InitPool ==
    /\ Queue = "none"
    /\ \E initial_capacity \in 0..MaxInitialCapacity :
          memory_pool_ = MemoryPool(initial_capacity)
    /\ pool_user = [IdlePoolUser EXCEPT !.pc = "run"]
    /\ capacity_ = 0 /\ queue_ = <<>> /\ first_ = 0 /\ next_write_ = 0
    /\ llq_first_ = nullptr /\ divider_ = nullptr /\ last_ = nullptr
    /\ node_next = <<>> /\ node_value = <<>> /\ heap_count = 0
    /\ InitThreads
    /\ bench = IdleBench

\* T* p = pool.Allocate(): the caller now holds p.  A call that reaches
\* memory_.back() with an empty free-list ends the thread.
P_Allocate ==
    /\ Queue = "none" /\ pool_user.pc = "run" /\ pool_user.ops < MaxPoolOps
    /\ LET got == Allocate(memory_pool_)
       IN /\ memory_pool_' = got.pool
          /\ pool_user' =
                IF got.back_of_empty
                THEN [pool_user EXCEPT !.pc = "crashed", !.op = "Allocate",
                                       !.ptr = nullptr, !.ops = @ + 1]
                ELSE [pool_user EXCEPT !.op = "Allocate", !.ptr = got.ptr,
                                       !.live = Append(@, got.ptr),
                                       !.ops = @ + 1]
    /\ UNCHANGED <<Queue, bounded_vars, llq_first_, divider_, last_, node_next,
                   node_value, heap_count, prod, cons, value, pushed, popped,
                   bench>>

\* pool.Free(p) for a pointer p the caller holds.
P_Free ==
    /\ Queue = "none" /\ pool_user.pc = "run" /\ pool_user.ops < MaxPoolOps
    /\ \E i \in 1..Len(pool_user.live) :
          /\ memory_pool_' = Free(memory_pool_, pool_user.live[i])
          /\ pool_user' =
                [pool_user EXCEPT
                   !.op = "Free", !.ptr = pool_user.live[i],
                   !.live = SubSeq(@, 1, i - 1) \o SubSeq(@, i + 1, Len(@)),
                   !.ops = @ + 1]
    /\ UNCHANGED <<Queue, bounded_vars, llq_first_, divider_, last_, node_next,
                   node_value, heap_count, prod, cons, value, pushed, popped,
                   bench>>

NextPool == P_Allocate \/ P_Free

PoolSpec == InitPool /\ [][NextPool]_vars

(***************************************************************************)
(* Properties.                                                             *)
(***************************************************************************)
IsPrefix(s, t) == Len(s) <= Len(t) /\ \A i \in 1..Len(s) : s[i] = t[i]

\* The values Push has published and Pop has not yet returned, oldest first.
Unconsumed == SubSeq(pushed, Len(popped) + 1, Len(pushed))

\* No Push and no Pop is in progress.
Quiescent == prod.pc = "idle" /\ cons.pc = "idle"

\* The content of the buffer from first_ up to next_write_, oldest first.
RECURSIVE BufferFrom(_)
BufferFrom(i) ==
    IF i = next_write_ THEN <<>> ELSE <<queue_[i]>> \o BufferFrom(Advance(i))

\* C1: bounded queue, every interleaving: the values returned by successful
\* Pops are a prefix of the values Push published, in the same order, and
\* the values published and not yet popped are the content of the slots
\* from first_ up to next_write_ (nothing lost, duplicated or reordered).
C1_BoundedFifo ==
    Queue = "bounded" =>
        /\ IsPrefix(popped, pushed)
        /\ BufferFrom(first_) = Unconsumed

\* C1 witness: three values went through a buffer of two slots, so both
\* cursors wrapped around.
C1_Witness ==
    /\ Queue = "bounded" /\ capacity_ = 2
    /\ Len(popped) = 3 /\ popped = pushed
    /\ popped[1] # popped[2] /\ popped[2] # popped[3]

\* C3: bounded queue: Push returns false exactly when it found the queue
\* full (first == Advance(next_write)), and true in every other case, having
\* stored the value and published next_write.
C3_PushResult ==
    (Queue = "bounded" /\ prod.op = "Push" /\ prod.pc = "idle") =>
        /\ prod.ret = ~PushFull(prod.first, Advance(prod.next_write))
        /\ prod.ret = prod.stored

\* The buffer holds capacity_ - 1 values and no Pop has completed.
C4_FullState == Queue = "bounded" /\ Len(pushed) = capacity_ - 1 /\ Len(popped) = 0

\* An IsFull that returns before any Pop completed returns true exactly
\* when capacity_ - 1 values are published.
C4_IsFullAtCapacity ==
    (Queue = "bounded" /\ prod.op = "IsFull" /\ prod.pc = "idle"
       /\ Len(popped) = 0) =>
        prod.ret = (Len(pushed) = capacity_ - 1)

\* A step of Push in the full state changes no cursor and no slot, does not
\* go on to the stores, and ends the call with false.
C4_PushWhenFullStep ==
    (C4_FullState /\ prod.op = "Push" /\ prod.pc # "idle" /\ prod' # prod) =>
        /\ first_' = first_ /\ next_write_' = next_write_ /\ queue_' = queue_
        /\ prod'.pc \in {"idle", "push_load_next_write"}
        /\ prod'.pc = "idle" => prod'.ret = FALSE

\* The first value popped is the first value pushed.
C4_OldestFirst ==
    (Queue = "bounded" /\ Len(popped) >= 1) => popped[1] = pushed[1]

\* C4: bounded queue with buffer size C, no Pop completed: IsFull returns
\* true exactly after C-1 published pushes (false after fewer); a step of
\* Push in that state changes neither cursor nor any slot and its return
\* value is false; the first Pop returns the oldest pushed value.
C4_CannotPushWhenFull ==
    /\ [](C4_IsFullAtCapacity /\ C4_OldestFirst)
    /\ [][C4_PushWhenFullStep]_vars

\* C4 witness: buffer of three slots, two pushes published, a third Push
\* returned without storing, and the Pop after it returned the oldest value.
C4_Witness ==
    /\ Queue = "bounded" /\ capacity_ = 3 /\ Len(pushed) = 2
    /\ prod.op = "Push" /\ prod.pc = "idle" /\ ~prod.stored /\ ~prod.ret
    /\ cons.op = "Pop" /\ cons.pc = "idle" /\ cons.ret
    /\ popped = <<pushed[1]>> /\ pushed[1] # pushed[2]

\* C6: bounded queue, no operation in progress: IsEmpty() is true iff
\* first_ = next_write_ iff as many values were popped as published, and
\* IsFull() is true iff Advance(next_write_) = first_ iff the number of
\* unconsumed values is buffer size - 1.
C6_EmptyFullPredicates ==
    (Queue = "bounded" /\ Quiescent) =>
        /\ IsEmptyResult(first_, next_write_) <=> (Len(pushed) = Len(popped))
        /\ (first_ = next_write_) <=> (Len(pushed) = Len(popped))
        /\ IsFullResult(first_, next_write_) <=> (Len(Unconsumed) = capacity_ - 1)
        /\ (Advance(next_write_) = first_) <=> (Len(Unconsumed) = capacity_ - 1)

\* C6 witness: a full buffer of three slots after the cursors wrapped.
C6_Witness ==
    /\ Queue = "bounded" /\ Quiescent /\ capacity_ = 3
    /\ Len(popped) = 1 /\ Len(pushed) = 3
    /\ IsFullResult(first_, next_write_) /\ ~IsEmptyResult(first_, next_write_)

\* C8: bounded queue, every reachable state: GetCapacity() is buffer size
\* - 1; the number of values published and not yet popped is
\* (next_write_ - first_) mod buffer size and at most GetCapacity().
C8_CapacityBound ==
    Queue = "bounded" =>
        /\ GetCapacity = capacity_ - 1
        /\ Len(Unconsumed) = (next_write_ - first_) % capacity_
        /\ Len(Unconsumed) <= GetCapacity

\* C8 witness: the buffer holds GetCapacity() values with next_write_
\* wrapped around behind first_, while a Pop is removing one of them.
C8_Witness ==
    /\ Queue = "bounded" /\ capacity_ = 3
    /\ Len(Unconsumed) = GetCapacity /\ next_write_ < first_
    /\ cons.pc = "pop_store_first"

(***************************************************************************)
(* Properties of the linked queue.                                         *)
(***************************************************************************)
\* b is a or comes after a in the chain of next links.
RECURSIVE Reaches(_, _)
Reaches(a, b) ==
    IF a = b THEN TRUE
    ELSE IF ~IsNode(a) THEN FALSE
    ELSE Reaches(node_next[a], b)

\* The values of the nodes after n up to last_, oldest first.
RECURSIVE ChainValues(_)
ChainValues(n) ==
    IF n = last_ \/ ~IsNode(n) \/ ~IsNode(node_next[n]) THEN <<>>
    ELSE <<node_value[node_next[n]]>> \o ChainValues(node_next[n])

\* The nodes passed to MemoryPool::Free or never taken from the pool.
InPool(n) == \E i \in 1..Len(memory_pool_.memory_) : memory_pool_.memory_[i] = n

\* C2: linked queue, every interleaving: the values returned by successful
\* Pops are a prefix of the values pushed, and the nodes after divider_ up to
\* last_ hold the values not yet popped; so when 0..N-1 are pushed in order
\* the pops return 0, 1, 2, ... in order.
C2_LinkedFifo ==
    Queue = "linked" =>
        /\ IsPrefix(popped, pushed)
        /\ ChainValues(divider_) = Unconsumed
        /\ (\A i \in 1..Len(pushed) : pushed[i] = i - 1) =>
              (\A i \in 1..Len(popped) : popped[i] = i - 1)

\* C2 witness: 0, 1, 2 were pushed and popped, the last Pop ending while a
\* Push was still freeing nodes.
C2_Witness ==
    /\ Queue = "linked"
    /\ pushed = <<0, 1, 2>> /\ popped = <<0, 1, 2>>
    /\ prod.pc = "free_queue_until"

\* C5: linked queue: IsEmpty returns true exactly when the divider it
\* loaded equals the last it loaded.
C5_IsEmptyResult ==
    (Queue = "linked" /\ cons.op = "IsEmpty" /\ cons.pc = "idle") =>
        cons.ret = (cons.div = cons.last)

\* A step of Pop taken while every published value has been popped.
C7_PopStepWhenEmpty ==
    (cons.op = "Pop" /\ cons.pc # "idle" /\ cons' # cons
       /\ Len(pushed) = Len(popped)) =>
        /\ value' = value
        /\ first_' = first_ /\ next_write_' = next_write_
        /\ divider_' = divider_ /\ last_' = last_ /\ llq_first_' = llq_first_
        /\ cons'.pc \in {"idle", "pop_load_next_write", "pop_load_last"}
        /\ cons'.pc = "idle" => cons'.ret = FALSE

\* C7: both queues: a step of Pop taken while the queue holds no
\* unconsumed value writes neither the caller's variable nor any cursor or
\* pointer of the queue, does not go on to read a value, and when it ends
\* the call the result is false.
C7_PopEmpty == [][C7_PopStepWhenEmpty]_vars

\* C7 witness: every pushed value has been popped and one more Pop has
\* returned false with the caller's variable still holding -1.
C7_Witness ==
    /\ cons.op = "Pop" /\ cons.pc = "idle" /\ ~cons.ret
    /\ value = Sentinel
    /\ Len(pushed) = 2 /\ popped = pushed

\* The nodes Pop dereferences exist, are linked and are not in the pool.
C9_PopDereferences ==
    cons.pc \in {"pop_read_value", "pop_store_divider"} =>
        /\ IsNode(cons.div) /\ ~InPool(cons.div)
        /\ IsNode(node_next[cons.div]) /\ ~InPool(node_next[cons.div])

\* While the queue is in use (its destructor has not started), first_ has
\* not passed divider_, nor the divider FreeQueueUntil stops at.
C9_FirstBehindDivider ==
    (Queue = "linked" /\ Alive) =>
        /\ Reaches(llq_first_, divider_)
        /\ prod.pc = "free_queue_until" =>
              Reaches(llq_first_, prod.until) /\ Reaches(prod.until, divider_)
        /\ cons.pc # "crashed"
        /\ C9_PopDereferences

\* first_ stays or moves to the successor of the node it points to.
C9_FirstForward ==
    Queue = "linked" =>
        \/ llq_first_' = llq_first_
        \/ IsNode(llq_first_) /\ llq_first_' = node_next[llq_first_]

\* C9: linked queue in use, every interleaving: divider_ is first_ or after
\* it in the chain, the divider a running FreeQueueUntil stops at is too, first_
\* moves only from a node to its successor, and each node Pop dereferences
\* (the divider it loaded and that node's successor) is a linked node that
\* is not in the pool.
C9_NoFreeOfReadableNode ==
    /\ []C9_FirstBehindDivider
    /\ [][C9_FirstForward]_vars

\* C9 witness: Pop is about to dereference its divider while the producer
\* has freed every node before that divider.
C9_Witness ==
    /\ Queue = "linked" /\ cons.pc = "pop_read_value"
    /\ llq_first_ = cons.div /\ InPool(-1)
    /\ prod.pc = "free_queue_until"

(***************************************************************************)
(* Properties of the benchmark.                                            *)
(***************************************************************************)
\* C10: when the producer has pushed num_iterations_ values and the
\* consumer has received as many, the sum of the values the consumer
\* received equals the sum of the values the producer pushed.
C10_RoundTrip ==
    (bench.push = "done" /\ bench.pop = "done") =>
        bench.push_count_ = bench.pop_count_

(***************************************************************************)
(* Properties of the linked queue's use of its memory pool.                *)
(***************************************************************************)
\* The addresses of the slots of the chunks a pool has allocated.
ChunkSlots(pool) ==
    1..(Len(pool.memory_chunk_starting_locations_) * pool.capacity_increment_)

\* C11: linked queue: no Push allocates from the general-purpose heap, every
\* node of the queue is a slot of one of the pool's chunks, and so is every
\* pointer the free-list holds.
C11_NodesFromPool ==
    Queue = "linked" =>
        /\ heap_count = 0
        /\ DOMAIN node_next \subseteq ChunkSlots(memory_pool_)
        /\ \A i \in 1..Len(memory_pool_.memory_) :
              memory_pool_.memory_[i] \in ChunkSlots(memory_pool_)

(***************************************************************************)
(* Properties of a MemoryPool used on its own.                             *)
(***************************************************************************)
\* The number of times pointer p occurs in the sequence of pointers s.
Occurrences(s, p) == Cardinality({i \in 1..Len(s) : s[i] = p})

\* C12: pool used by one thread that frees only pointers it holds: the
\* pointers the caller holds are pairwise different, and every slot of every
\* chunk is either held by the caller or in the free-list, exactly once in
\* all.
C12_LiveOrFreeOnce ==
    Queue = "none" =>
        /\ \A i, j \in 1..Len(pool_user.live) :
              i # j => pool_user.live[i] # pool_user.live[j]
        /\ \A i \in 1..Len(pool_user.live) :
              pool_user.live[i] \in ChunkSlots(memory_pool_)
        /\ \A p \in ChunkSlots(memory_pool_) :
              Occurrences(pool_user.live, p)
                + Occurrences(memory_pool_.memory_, p) = 1

\* C12 witness: the pool has grown by a chunk, a pointer has been freed and
\* the caller has just been handed a pointer while it holds another one.
C12_Witness ==
    /\ Queue = "none" /\ pool_user.op = "Allocate" /\ pool_user.pc = "run"
    /\ Len(memory_pool_.memory_chunk_starting_locations_) = 2
    /\ Len(pool_user.live) >= 2
    /\ pool_user.ops > Len(pool_user.live)

\* C13: pool of any initial capacity, 0 included: an Allocate call finds the
\* free-list non-empty when it takes the last pointer, and returns a slot of
\* one of the pool's chunks.
C13_AllocateNeverFails ==
    (Queue = "none" /\ pool_user.op = "Allocate") =>
        /\ pool_user.pc # "crashed"
        /\ pool_user.ptr \in ChunkSlots(memory_pool_)

\* The pointers a pool and its caller hold between them.
PoolPointers(pool, user) ==
    {pool.memory_[i] : i \in 1..Len(pool.memory_)}
        \union {user.live[i] : i \in 1..Len(user.live)}

\* One step of the pool: the number of chunks does not decrease, Free leaves
\* it alone, it grows only in an Allocate called with an empty free-list,
\* and then by one chunk whose capacity_increment_ slots are new pointers.
C14_ChunkStep ==
    LET before == Len(memory_pool_.memory_chunk_starting_locations_)
        after  == Len(memory_pool_'.memory_chunk_starting_locations_)
    IN Queue = "none" =>
        /\ after >= before
        /\ memory_pool_'.capacity_increment_ = memory_pool_.capacity_increment_
        /\ pool_user'.op = "Free" => after = before
        /\ Len(memory_pool_.memory_) > 0 => after = before
        /\ after # before =>
              /\ pool_user'.op = "Allocate"
              /\ Len(memory_pool_.memory_) = 0
              /\ after = before + 1
              /\ Cardinality(PoolPointers(memory_pool_', pool_user')
                               \ PoolPointers(memory_pool_, pool_user))
                   = memory_pool_.capacity_increment_

\* C14: the pool's chunks grow monotonically and only in an Allocate call
\* that finds the free-list empty, one chunk of capacity_increment_ slots
\* at a time; Free and an Allocate with a non-empty free-list add no chunk.
C14_ChunkGrowth == [][C14_ChunkStep]_vars

\* C14 witness: the pool has grown twice, and the caller has freed and
\* allocated without growth in between.
C14_Witness ==
    /\ Queue = "none" /\ pool_user.pc = "run"
    /\ Len(memory_pool_.memory_chunk_starting_locations_) = 3
    /\ Len(memory_pool_.memory_) > 0
    /\ pool_user.ops > Len(pool_user.live)

(***************************************************************************)
(* Properties of both queues: progress, ownership, reclamation.            *)
(***************************************************************************)
\* The steps the producer thread takes inside a call, and the consumer's.
ProducerStep ==
    \/ B_Push_LoadFirst \/ B_Push_LoadNextWrite \/ B_Push_StoreValue
    \/ B_Push_StoreNextWrite \/ B_IsFull_LoadFirst \/ B_IsFull_LoadNextWrite
    \/ L_Push_LoadLast \/ L_Push_NewNode \/ L_Push_StoreLast
    \/ L_Push_LoadDivider \/ L_FreeQueueUntil

ConsumerStep ==
    \/ B_Pop_LoadFirst \/ B_Pop_LoadNextWrite \/ B_Pop_LoadValue
    \/ B_Pop_StoreFirst \/ B_IsEmpty_LoadFirst \/ B_IsEmpty_LoadNextWrite
    \/ L_Pop_LoadDivider \/ L_Pop_LoadLast \/ L_Pop_ReadValue
    \/ L_Pop_StoreDivider \/ L_IsEmpty_LoadDivider \/ L_IsEmpty_LoadLast

\* The number of links from node a to b, or to the end of the chain.
RECURSIVE Dist(_, _)
Dist(a, b) ==
    IF a = b \/ ~IsNode(a) THEN 0 ELSE 1 + Dist(node_next[a], b)

\* An upper bound on the steps the producer still takes in its call: the
\* reclamation loop runs once per node from first_ up to the divider loaded,
\* which is at most the chain from first_ to its end.
ProdRank ==
    CASE prod.pc = "idle" -> 0
      [] prod.pc = "push_load_first" -> 4
      [] prod.pc = "push_load_next_write" -> 3
      [] prod.pc = "push_store_value" -> 2
      [] prod.pc = "push_store_next_write" -> 1
      [] prod.pc = "is_full_load_first" -> 2
      [] prod.pc = "is_full_load_next_write" -> 1
      [] prod.pc = "push_load_last" -> 6 + Dist(llq_first_, nullptr)
      [] prod.pc = "push_new_node" -> 5 + Dist(llq_first_, nullptr)
      [] prod.pc = "push_store_last" -> 3 + Dist(llq_first_, nullptr)
      [] prod.pc = "push_load_divider" -> 2 + Dist(llq_first_, nullptr)
      [] prod.pc = "free_queue_until" -> 1 + Dist(llq_first_, prod.until)

\* An upper bound on the steps the consumer still takes in its call.
ConsRank ==
    CASE cons.pc = "idle" -> 0
      [] cons.pc \in {"pop_load_first", "pop_load_divider"} -> 4
      [] cons.pc \in {"pop_load_next_write", "pop_load_last"} -> 3
      [] cons.pc \in {"pop_load_value", "pop_read_value"} -> 2
      [] cons.pc \in {"pop_store_first", "pop_store_divider"} -> 1
      [] cons.pc \in {"is_empty_load_first", "is_empty_load_divider"} -> 2
      [] cons.pc \in {"is_empty_load_next_write", "is_empty_load_last"} -> 1
      [] cons.pc = "crashed" -> 1

\* A thread inside a call can always take its next step, whatever the state
\* of the other thread.
C15_NeverWaits ==
    /\ prod.pc # "idle" => ENABLED ProducerStep
    /\ cons.pc # "idle" => ENABLED ConsumerStep

\* Each step of a thread inside a call lowers the bound on its remaining
\* steps, and no step of the other thread raises it.
C15_RankStep ==
    /\ (prod.pc # "idle" /\ cons' = cons) => ProdRank' < ProdRank
    /\ (prod.pc # "idle" /\ cons' # cons) => ProdRank' <= ProdRank
    /\ (cons.pc # "idle" /\ cons' # cons) => ConsRank' < ConsRank
    /\ (cons.pc # "idle" /\ cons' = cons) => ConsRank' <= ConsRank

\* C15: both queues: a thread inside Push, Pop, IsEmpty or IsFull (or the
\* reclamation loop of the linked Push) can always take its next step, each
\* of its steps lowers a bound on the steps it has left, and the other
\* thread's steps never raise that bound: the call returns after at most
\* that many steps of the caller alone.
C15_NonBlocking ==
    /\ []C15_NeverWaits
    /\ [][C15_RankStep]_vars

\* C15 witness: a linked Push is in its reclamation loop with two nodes
\* left to free while the consumer is in the middle of a Pop.
C15_Witness ==
    /\ Queue = "linked" /\ prod.op = "Push" /\ prod.pc = "free_queue_until"
    /\ Dist(llq_first_, prod.until) = 2
    /\ cons.pc = "pop_read_value"

\* A step of the producer inside Push, and a step of the consumer inside
\* Pop.
PushStep == prod.op = "Push" /\ prod.pc # "idle" /\ cons' = cons
PopStep == cons.op = "Pop" /\ cons.pc # "idle" /\ cons' # cons

\* C16: single writer: no step of Push changes first_ (bounded queue) or
\* divider_ (linked queue); no step of Pop changes next_write_ or a slot
\* (bounded queue), or last_, first_, a node's next link or the memory pool
\* (linked queue).
C16_SingleWriter ==
    [][/\ PushStep => first_' = first_ /\ divider_' = divider_
       /\ PopStep => /\ next_write_' = next_write_ /\ queue_' = queue_
                     /\ last_' = last_ /\ llq_first_' = llq_first_
                     /\ node_next' = node_next
                     /\ memory_pool_' = memory_pool_]_vars

\* C16 witness: both threads have written their side of a linked queue: a
\* Pop has moved divider_ and a Push is freeing the node left behind.
C16_Witness ==
    /\ Queue = "linked" /\ prod.op = "Push" /\ prod.pc = "free_queue_until"
    /\ cons.op = "Pop" /\ cons.pc = "idle" /\ cons.ret
    /\ llq_first_ # divider_ /\ InPool(1)

\* C17: bounded queue: a Pop the consumer calls right after its IsEmpty()
\* returned false returns true, and a Push the producer calls right after
\* its IsFull() returned false is not rejected as full (it stores and
\* publishes its value), whatever the other thread did in between.
C17_PredicatesStable ==
    Queue = "bounded" =>
        /\ (cons.op = "Pop" /\ cons.pc = "idle" /\ cons.after_not_empty)
              => cons.ret
        /\ (prod.op = "Push" /\ prod.pc = "idle" /\ prod.after_not_full)
              => prod.stored

\* C17 witness: the consumer's Pop after IsEmpty() = false has returned and
\* the producer's Push after IsFull() = false has returned, the producer
\* having pushed and the consumer having popped more than once.
C17_Witness ==
    /\ Queue = "bounded"
    /\ cons.op = "Pop" /\ cons.pc = "idle" /\ cons.after_not_empty
    /\ prod.op = "Push" /\ prod.pc = "idle" /\ prod.after_not_full
    /\ Len(pushed) >= 2 /\ Len(popped) >= 2

\* The slots from first_ up to, not including, next_write_: the published
\* slots the consumer has not consumed.
PublishedRange ==
    {(first_ + k) % capacity_ :
        k \in 0..(((next_write_ - first_ + capacity_) % capacity_) - 1)}

\* C18: bounded queue: the slots from first_ up to next_write_ are as many
\* as the values pushed and not yet popped; when Push is about to write a
\* slot, the slot lies outside them; when Pop is about to read a slot, the
\* slot lies inside them and holds the oldest value not yet popped.
C18_SlotAccess ==
    Queue = "bounded" =>
        /\ Cardinality(PublishedRange) = Len(Unconsumed)
        /\ prod.pc = "push_store_value" => prod.next_write \notin PublishedRange
        /\ cons.pc = "pop_load_value" =>
              /\ cons.first \in PublishedRange
              /\ queue_[cons.first] = Unconsumed[1]

\* C18 witness: Push is about to write the last slot of the buffer while Pop
\* is about to read a slot after the first of the buffer.
C18_Witness ==
    /\ Queue = "bounded"
    /\ prod.pc = "push_store_value" /\ prod.next_write = capacity_ - 1
    /\ cons.pc = "pop_load_value" /\ cons.first >= 1

\* The nodes of a linked queue: the one its constructor allocated from the
\* pool, and the ones its Pushes created.
QueueNodes ==
    {n \in DOMAIN node_next : n < 0 \/ n = memory_pool_.capacity_increment_}

\* The number of times node n has been passed to the pool's Free.
TimesFreed(n) == Occurrences(memory_pool_.memory_, n)

\* C19: linked queue: when a Push has returned, first_ is the divider_ value
\* that Push loaded and every node before it has been passed to Free; in
\* every state a node has been passed to Free once if first_ has moved past
\* it and not at all otherwise; when the destructor has returned, every
\* node has been passed to Free exactly once.
C19_Reclamation ==
    Queue = "linked" =>
        /\ (prod.op = "Push" /\ prod.pc = "idle") =>
              /\ llq_first_ = prod.until
              /\ \A n \in QueueNodes :
                    ~Reaches(prod.until, n) => TimesFreed(n) = 1
        /\ \A n \in QueueNodes :
              TimesFreed(n) = IF Reaches(llq_first_, n) THEN 0 ELSE 1
        /\ (prod.op = "~Queue" /\ prod.pc = "idle") =>
              \A n \in QueueNodes : TimesFreed(n) = 1

\* C19 witness: the destructor has returned after two Pushes and a Pop, so
\* that both a Push and the destructor have freed nodes.
C19_Witness ==
    /\ Queue = "linked" /\ prod.op = "~Queue" /\ prod.pc = "idle"
    /\ Len(pushed) >= 2 /\ Len(popped) = 1
    /\ llq_first_ = nullptr
    /\ \A n \in QueueNodes : TimesFreed(n) = 1

\* C20: linked queue in use: every pointer in the pool's free-list is a
\* slot of one of the pool's chunks and occurs there once, and the free-list
\* is no longer than the number of slots of all chunks.
C20_FreeListWithinChunks ==
    (Queue = "linked" /\ Alive) =>
        /\ \A i \in 1..Len(memory_pool_.memory_) :
              /\ memory_pool_.memory_[i] \in ChunkSlots(memory_pool_)
              /\ Occurrences(memory_pool_.memory_, memory_pool_.memory_[i]) = 1
        /\ Len(memory_pool_.memory_) <= Cardinality(ChunkSlots(memory_pool_))

(***************************************************************************)
(* Index arithmetic of the bounded queue.                                  *)
(***************************************************************************)
\* The indices of the buffer's slots.
Indices == 0..(capacity_ - 1)

\* C21: bounded queue of buffer size C >= 1: Advance(i) is (i + 1) mod C for
\* every index i of the buffer; first_ and next_write_, and the copies the
\* threads loaded of them, are indices of the buffer; the slot Push is
\* about to write and the slot Pop is about to read are slots of the buffer.
C21_IndexArithmetic ==
    Queue = "bounded" =>
        /\ capacity_ >= 1
        /\ \A i \in Indices : Advance(i) = (i + 1) % capacity_
        /\ first_ \in Indices /\ next_write_ \in Indices
        /\ prod.first \in Indices /\ prod.next_write \in Indices
        /\ prod.next_write_next \in Indices
        /\ cons.first \in Indices /\ cons.next_write \in Indices
        /\ DOMAIN queue_ = Indices
        /\ prod.pc = "push_store_value" => prod.next_write \in DOMAIN queue_
        /\ cons.pc = "pop_load_value" => cons.first \in DOMAIN queue_

\* C21 witness: next_write_ has wrapped from the last slot to slot 0, and
\* Pop is about to read the last slot of the buffer.
C21_Witness ==
    /\ Queue = "bounded" /\ capacity_ >= 2
    /\ Len(pushed) >= 2 /\ next_write_ = 0
    /\ cons.pc = "pop_load_value" /\ cons.first = capacity_ - 1

====
